---- MODULE Spec2Model ----
(***************************************************************************)
(* A model of the io-kit safe wrappers (io-kit/src/base.rs and             *)
(* io-kit/src/hid/device.rs) running against a mock of the native IOKit,   *)
(* CoreFoundation and run-loop collaborators.  The mock counts releases    *)
(* per native handle, keeps the pending objects of every native iterator,  *)
(* and records the native calls each wrapper operation issues, in order.   *)
(***************************************************************************)
EXTENDS Integers, Sequences, FiniteSets, TLC

\* ------------------------------------------------------------------ bounds
\* Native handles the mock registry can hand out.
MaxHandles == 6
\* Objects one native iterator can be loaded with at a time.
MaxMatch == 3
\* Calls of add_matching_notification (successful or not) in one run.
MaxRegs == 1
\* IOHIDDevice objects created in one run.
MaxDevices == 1
\* Device guards (open and schedule together) created in one run.
MaxGuards == 2
\* Successful explicit retains of one handle in one run.
MaxRetains == 1
\* objects the registry holds when a caller enumerates it for IOObjects
MaxObjects == 1

\* ------------------------------------------------------- program constants
KERN_SUCCESS == 0
\* Non-success kern_return_t values the mock can answer with.
KernFailures == {4, 5}
KernReturns == {KERN_SUCCESS} \cup KernFailures
kIOReturnSuccess == 0
\* kIOReturnError and kIOReturnExclusiveAccess, as the i32 IOReturn holds them.
IOReturnFailures == {-536870212, -536870203}
IOReturns == {kIOReturnSuccess} \cup IOReturnFailures
\* IOOptionBits values passed to open: none, and kIOHIDOptionsTypeSeizeDevice.
Options == {0, 1}
\* The run loops and the run-loop modes (CFStringRef) of the mock.
RunLoops == {1, 2}
Modes == {1, 2}

VARIABLES
    nextHandle,   \* the next fresh native handle (io_object_t) of the mock
    releases,     \* releases[h]: IOObjectRelease calls issued on handle h
    iterq,        \* iterq[h]: objects native iterator h has still to yield
    services,     \* handles of the live IOService wrappers the caller owns
    dict,         \* the criteria dictionary of the last matching call
    regs,         \* one record per add_matching_notification call
    heap,         \* addresses of the allocated callback cells
    uaf,          \* the trampoline dereferenced a cell that is not allocated
    halted,       \* "no", or how the process ended: "panic" / "crash"
    calls,        \* the native calls of the last operation, in order
    ret,          \* what the last operation returned
    devs,         \* the native HID devices and their IOHIDDevice wrappers
    openGuards,   \* one record per IOHIDDeviceOpenGuard created
    schedGuards,  \* one record per IOHIDDeviceScheduleGuard created
    freedUse,     \* a native HID call was made on a freed device
    retains,      \* retains[h]: successful IOObjectRetain calls on handle h
    iters,        \* handles of the live IOIterator wrappers the caller owns
    objects,      \* handles of the live IOObject wrappers the caller owns
    registry,     \* how many objects the mock registry currently holds
    nones         \* nones[h]: times next answered None on iterator h since
                  \* it was created or last reset (counted up to 2)

objVars == <<retains, iters, objects, registry>>
baseVars == <<nextHandle, releases, iterq, services, dict, regs, heap, uaf,
              retains, iters, objects, registry, nones>>
hidVars == <<devs, openGuards, schedGuards, freedUse>>
vars == <<nextHandle, releases, iterq, services, dict, regs, heap,
          uaf, halted, calls, ret, devs, openGuards, schedGuards, freedUse,
          retains, iters, objects, registry, nones>>

Handles == 1..MaxHandles

\* One entry of the mock's call log: the native function, the object it was
\* called on, its further arguments and what it answered.
CallWith(name, obj, arg, res) ==
    [call |-> name, obj |-> obj, arg |-> arg, res |-> res]
Call(name, obj, res) == CallWith(name, obj, 0, res)

\* The handles nextHandle .. nextHandle + n - 1, in order.
Fresh(first, n) == [i \in 1..n |-> first + i - 1]

Range(s) == {s[i] : i \in DOMAIN s}

Positions(s, name) == {i \in DOMAIN s : s[i].call = name}

Count(s, x) == Cardinality({i \in DOMAIN s : s[i] = x})

\* The arguments of the calls of `name` in s, in the order they were made.
ArgsOf(s, name) ==
    LET picked == SelectSeq(s, LAMBDA c : c.call = name)
    IN  [i \in DOMAIN picked |-> picked[i].arg]

NoReturn == [op |-> "none", ok |-> FALSE, code |-> 0, vals |-> <<>>]
Ok(op, vals) == [op |-> op, ok |-> TRUE, code |-> 0, vals |-> vals]
Err(op, code) == [op |-> op, ok |-> FALSE, code |-> code, vals |-> <<>>]

\* ------------------------------------------------------------ native mock
\* IOIteratorNext: the next object of the iterator, 0 when it is exhausted.
IOIteratorNext(q) == IF q = <<>> THEN 0 ELSE Head(q)

\* The references the process holds on handle h: the one it was created
\* with, plus the successful retains, minus the releases issued.
RefCount(h) == 1 + retains[h] - releases[h]

\* IOObjectRelease answers success for a handle that still holds a reference.
IOObjectRelease(h) ==
    IF h \in Handles /\ h < nextHandle /\ RefCount(h) > 0
    THEN KERN_SUCCESS ELSE 4

\* What the mock answers to an explicit IOObjectRetain / IOObjectRelease on h:
\* success while the handle holds a reference, some failure status after.
NativeAnswers(h) ==
    IF h \in Handles /\ h < nextHandle /\ RefCount(h) > 0
    THEN {KERN_SUCCESS} ELSE KernFailures

\* nones after the calls of cs: a reset of h clears its count, every
\* IOIteratorNext on h that answered 0 adds one.
NonesAfter(cs) ==
    [h \in Handles |->
        LET resets == {i \in Positions(cs, "IOIteratorReset") : cs[i].obj = h}
            zeros == {i \in Positions(cs, "IOIteratorNext") :
                        /\ cs[i].obj = h
                        /\ cs[i].res = 0
                        /\ \A r \in resets : r < i}
            sum == (IF resets = {} THEN nones[h] ELSE 0) + Cardinality(zeros)
        IN  IF sum > 2 THEN 2 ELSE sum]

\* The IOObjectRelease calls of cs on handle h.
ReleasedBy(cs, h) ==
    Cardinality({i \in Positions(cs, "IOObjectRelease") : cs[i].obj = h})

\* The mock frees a dictionary when its retain count reaches zero; a CFRelease
\* after that is undefined behaviour: the process crashes or runs on.
AfterRelease(rcBefore) == IF rcBefore <= 0 THEN {"no", "crash"} ELSE {"no"}

\* TCFType::wrap_under_get_rule: the wrapper retains the object it wraps.
wrap_under_get_rule(rc) == rc + 1

\* io_service_matching: IOServiceMatching creates the dictionary with one
\* reference and the result is wrapped under the get rule.
io_service_matching == wrap_under_get_rule(1)

\* Retain counts a criteria dictionary can have when it is passed in: one for
\* a dictionary the caller built, or the count of io_service_matching's result.
DictRefsOnEntry == {1, io_service_matching}

\* --------------------------------------------------------------- base.rs
\* make_services pushing every object at the front of the vector.
RECURSIVE make_services_reversed(_, _)
make_services_reversed(it, q) ==
    LET result == IOIteratorNext(q)
    IN  IF result = 0
        THEN [services |-> <<>>,
              calls |-> <<Call("IOIteratorNext", it, 0)>>]
        ELSE LET more == make_services_reversed(it, Tail(q))
             IN  [services |-> more.services \o <<result>>,
                  calls |-> <<Call("IOIteratorNext", it, result)>> \o more.calls]

\* make_services letting every IOObject drop once its handle was copied.
RECURSIVE make_services_dropping(_, _)
make_services_dropping(it, q) ==
    LET result == IOIteratorNext(q)
    IN  IF result = 0
        THEN [services |-> <<>>,
              calls |-> <<Call("IOIteratorNext", it, 0)>>]
        ELSE LET more == make_services_dropping(it, Tail(q))
             IN  [services |-> <<result>> \o more.services,
                  calls |-> <<Call("IOIteratorNext", it, result),
                              Call("IOObjectRelease", result, KERN_SUCCESS)>>
                            \o more.calls]

\* make_services: IOIterator::next until it answers None; every object is
\* rewrapped as an IOService and the IOObject forgotten, so nothing is
\* released.  Yields the services and the native calls made.
RECURSIVE make_services(_, _)
make_services(it, q) ==
    LET result == IOIteratorNext(q)
        next == IF result # 0 THEN <<result>> ELSE <<>>
    IN  IF next = <<>>
        THEN [services |-> <<>>,
              calls |-> <<Call("IOIteratorNext", it, 0)>>]
        ELSE LET more == make_services(it, Tail(q))
             IN  [services |-> <<next[1]>> \o more.services,
                  calls |-> <<Call("IOIteratorNext", it, next[1])>> \o more.calls]

\* The user closure of a registration: it is handed the services and keeps
\* them; the model records what it was called with.
UserCallback(reg, async, svcs) ==
    [reg EXCEPT !.deliveries = Append(@, [async |-> async, services |-> svcs])]

\* IOService::get_matching_service.  The native call consumes one reference
\* of `matching`; the CFDictionary is then dropped when the function returns.
get_matching_service(held, found) ==
    /\ halted = "no"
    /\ found => nextHandle <= MaxHandles
    /\ LET result == IF found THEN nextHandle ELSE 0
           rc == held - 1
       IN  /\ \E h \in AfterRelease(rc) : halted' = h
           /\ dict' = [held |-> held, consumed |-> 1, released |-> 1]
           /\ nextHandle' = IF found THEN nextHandle + 1 ELSE nextHandle
           /\ services' = IF result # 0 THEN services \cup {result} ELSE services
           /\ calls' = <<Call("IOServiceGetMatchingService", 0, result),
                         Call("CFRelease(matching)", 0, 0)>>
           /\ ret' = IF halted' # "no" THEN NoReturn
                     ELSE IF result # 0
                          THEN Ok("get_matching_service", <<result>>)
                          ELSE [NoReturn EXCEPT !.op = "get_matching_service"]
    /\ UNCHANGED <<releases, iterq, regs, heap, uaf>>

\* The loop with the vector filled from the back.
RECURSIVE get_matching_services_loop_lifo(_, _)
get_matching_services_loop_lifo(it, q) ==
    LET result == IOIteratorNext(q)
    IN  IF result = 0
        THEN [v |-> <<>>, calls |-> <<Call("IOIteratorNext", it, 0)>>]
        ELSE LET more == get_matching_services_loop_lifo(it, Tail(q))
             IN  [v |-> more.v \o <<result>>,
                  calls |-> <<Call("IOIteratorNext", it, result)>> \o more.calls]

\* The loop of get_matching_services over the raw iterator handle.
RECURSIVE get_matching_services_loop(_, _)
get_matching_services_loop(it, q) ==
    LET result == IOIteratorNext(q)
    IN  IF result = 0
        THEN [v |-> <<>>, calls |-> <<Call("IOIteratorNext", it, 0)>>]
        ELSE LET more == get_matching_services_loop(it, Tail(q))
             IN  [v |-> <<result>> \o more.v,
                  calls |-> <<Call("IOIteratorNext", it, result)>> \o more.calls]

\* IOService::get_matching_services.  The iterator handle stays a raw
\* io_iterator_t: no wrapper owns it and nothing releases it.  `matching` is
\* dropped when the function returns, on both paths.
get_matching_services(held, kr, n) ==
    /\ halted = "no"
    /\ kr = KERN_SUCCESS => nextHandle + n <= MaxHandles
    /\ kr # KERN_SUCCESS => n = 0
    /\ LET it == nextHandle
           objs == Fresh(nextHandle + 1, n)
           loop == get_matching_services_loop(it, objs)
           rc == held - 1
           native == <<Call("IOServiceGetMatchingServices", 0, kr)>>
           drop == <<Call("CFRelease(matching)", 0, 0)>>
       IN  /\ \E h \in AfterRelease(rc) : halted' = h
           /\ dict' = [held |-> held, consumed |-> 1, released |-> 1]
           /\ IF kr # KERN_SUCCESS
              THEN /\ calls' = native \o drop
                   /\ ret' = IF halted' # "no" THEN NoReturn
                             ELSE Err("get_matching_services", kr)
                   /\ UNCHANGED <<nextHandle, services, iterq>>
              ELSE /\ calls' = native \o loop.calls \o drop
                   /\ ret' = IF halted' # "no" THEN NoReturn
                             ELSE Ok("get_matching_services", loop.v)
                   /\ nextHandle' = nextHandle + n + 1
                   /\ services' = services \cup Range(loop.v)
                   /\ iterq' = [iterq EXCEPT ![it] = <<>>]
    /\ UNCHANGED <<releases, regs, heap, uaf>>

\* Drop for IOService: release().unwrap()
drop_service(s) ==
    /\ halted = "no"
    /\ s \in services
    /\ LET result == IOObjectRelease(s)
       IN  /\ releases' = [releases EXCEPT ![s] = @ + 1]
           /\ calls' = <<Call("IOObjectRelease", s, result)>>
           /\ halted' = IF result = KERN_SUCCESS THEN "no" ELSE "panic"
           /\ services' = services \ {s}
           /\ ret' = IF result = KERN_SUCCESS
                     THEN Ok("drop_service", <<s>>) ELSE NoReturn
    /\ UNCHANGED <<nextHandle, iterq, dict, regs, heap, uaf>>

\* ------------------------------------------- matching notification (base.rs)
\* The record of one add_matching_notification call.  status is "live" while
\* the caller holds the IOServiceMatchingNotification, "dropped" after its
\* drop, "failed" when the call returned Err.  supplied is the mock's own
\* record of what it loaded the iterator with, one entry per delivery.
NewReg(port) ==
    [status |-> "failed", portAlive |-> TRUE, sourceInLoop |-> FALSE,
     subscribed |-> FALSE, iterator |-> 0, refcon |-> 0, callback |-> 0,
     supplied |-> <<>>, deliveries |-> <<>>]

\* The native subscription of registration r can still deliver.
CanDeliver(reg) ==
    /\ reg.subscribed
    /\ reg.sourceInLoop
    /\ reg.portAlive
    /\ releases[reg.iterator] = 0

\* add_matching_notification, lines 175-178: the port, the current run loop
\* and the port's source, added to the run loop.
add_matching_notification_setup(port) ==
    <<Call("IONotificationPortCreate", port, port),
      Call("CFRunLoopGetCurrent", 0, 0),
      Call("IONotificationPortGetRunLoopSource", port, port),
      Call("CFRunLoopAddSource", port, 0)>>

\* The locals add_matching_notification still owns when it returns Err, dropped
\* in reverse order of declaration: callback, run_loop_source, run_loop,
\* notify_port.  `matching` was forgotten and is not among them.
add_matching_notification_unwind(port, cell) ==
    <<Call("free(callback)", cell, 0),
      Call("CFRelease(run_loop_source)", port, 0),
      Call("CFRelease(run_loop)", 0, 0),
      Call("IONotificationPortDestroy", port, 0)>>

\* The box dropped with the other locals on the success path too.
callback_dropped_at_return(result, cell) == {}

\* The callback cells still allocated once add_matching_notification has
\* returned: the box moves into the Registration on success and is dropped
\* with the other locals on failure.
callback_after_return(result, cell) ==
    IF result = KERN_SUCCESS THEN {cell} ELSE {}

\* Every native failure reported as KERN_FAILURE.
add_matching_notification_result_fixed(result, r) ==
    IF result = KERN_SUCCESS
    THEN Ok("add_matching_notification", <<r>>)
    ELSE Err("add_matching_notification", 5)

\* The value add_matching_notification returns for the native status.
add_matching_notification_result(result, r) ==
    IF result = KERN_SUCCESS
    THEN Ok("add_matching_notification", <<r>>)
    ELSE Err("add_matching_notification", result)

\* The first delivery made only when something matched.
initial_delivery_unless_empty(reg, it, q) ==
    LET drained == make_services(it, q)
    IN  IF drained.services = <<>>
        THEN [reg |-> reg, calls |-> drained.calls, kept |-> {}]
        ELSE [reg |-> UserCallback(reg, FALSE, drained.services),
              calls |-> drained.calls \o <<Call("callback", reg.callback, 0)>>,
              kept |-> Range(drained.services)]

\* The synchronous first delivery: the iterator the native call returned is
\* drained and the callback invoked once, whatever the number of services.
initial_delivery(reg, it, q) ==
    LET drained == make_services(it, q)
    IN  [reg |-> UserCallback(reg, FALSE, drained.services),
         calls |-> drained.calls \o <<Call("callback", reg.callback, 0)>>,
         kept |-> Range(drained.services)]

\* IOService::add_matching_notification
add_matching_notification(held, portOk, srcOk, result, n) ==
    /\ halted = "no"
    /\ Len(regs) < MaxRegs
    /\ result = KERN_SUCCESS => nextHandle + n <= MaxHandles
    /\ result # KERN_SUCCESS => n = 0
    /\ (~portOk \/ ~srcOk) => (result = KERN_SUCCESS /\ n = 0)
    /\ LET r == Len(regs) + 1
           port == r
           cell == r
           it == nextHandle
           objs == Fresh(nextHandle + 1, n)
           setup == add_matching_notification_setup(port)
           native == <<Call("IOServiceAddMatchingNotification", port, result)>>
           reg0 == [NewReg(port) EXCEPT !.sourceInLoop = TRUE,
                                        !.refcon = cell,
                                        !.callback = cell]
       IN  IF ~portOk
           THEN \* IONotificationPort::new().unwrap() panics; the arguments
                \* are dropped by the unwinding.
                /\ halted' = "panic"
                /\ calls' = <<Call("IONotificationPortCreate", port, 0),
                              Call("CFRelease(matching)", 0, 0)>>
                /\ dict' = [held |-> held, consumed |-> 0, released |-> 1]
                /\ ret' = NoReturn
                /\ UNCHANGED <<nextHandle, releases, iterq, services, regs,
                               heap, uaf>>
           ELSE IF ~srcOk
           THEN \* the assertion of get_run_loop_source fails; run_loop and
                \* notify_port are dropped by the unwinding.
                /\ halted' = "panic"
                /\ calls' = <<setup[1], setup[2],
                              Call("IONotificationPortGetRunLoopSource", port, 0),
                              Call("CFRelease(run_loop)", 0, 0),
                              Call("IONotificationPortDestroy", port, 0),
                              Call("CFRelease(matching)", 0, 0)>>
                /\ dict' = [held |-> held, consumed |-> 0, released |-> 1]
                /\ regs' = Append(regs, [NewReg(port) EXCEPT !.portAlive = FALSE])
                /\ ret' = NoReturn
                /\ UNCHANGED <<nextHandle, releases, iterq, services, heap, uaf>>
           ELSE IF result = KERN_SUCCESS
           THEN LET reg1 == [reg0 EXCEPT !.status = "live",
                                         !.subscribed = TRUE,
                                         !.iterator = it,
                                         !.supplied = <<objs>>]
                    first == initial_delivery(reg1, it, objs)
                    kept == callback_after_return(result, cell)
                IN  /\ calls' = setup \o native \o first.calls
                    /\ regs' = Append(regs,
                           [first.reg EXCEPT !.callback =
                                IF cell \in kept THEN cell ELSE 0])
                    /\ heap' = heap \cup kept
                    /\ services' = services \cup first.kept
                    /\ nextHandle' = nextHandle + n + 1
                    /\ iterq' = [iterq EXCEPT ![it] = <<>>]
                    /\ dict' = [held |-> held, consumed |-> 1,
                                released |-> Cardinality(
                                    Positions(calls', "CFRelease(matching)"))]
                    /\ ret' = add_matching_notification_result(result, r)
                    /\ releases' = [h \in Handles |->
                                       releases[h] + ReleasedBy(calls', h)]
                    /\ UNCHANGED <<uaf, halted>>
           ELSE LET unwind == add_matching_notification_unwind(port, cell)
                IN  /\ calls' = setup \o native \o unwind
                    /\ regs' = Append(regs,
                           [reg0 EXCEPT
                              !.portAlive = Positions(unwind,
                                   "IONotificationPortDestroy") = {},
                              !.sourceInLoop = Positions(unwind,
                                   "CFRunLoopRemoveSource") = {},
                              !.callback = 0])
                    /\ heap' = heap \cup callback_after_return(result, cell)
                    /\ dict' = [held |-> held, consumed |-> 1,
                                released |-> Cardinality(
                                    Positions(calls', "CFRelease(matching)"))]
                    /\ ret' = add_matching_notification_result(result, r)
                    /\ UNCHANGED <<nextHandle, releases, iterq, services,
                                   uaf, halted>>

\* The trampoline dropping the IOIterator it built instead of forgetting it.
trampoline_cleanup_dropping(it) ==
    <<Call("IOObjectRelease", it, IOObjectRelease(it))>>

\* What the trampoline does with the IOIterator it built around the handle
\* it was passed: mem::forget, so no native call.
trampoline_cleanup(it) == <<>>

\* service_matching_callback_internal: the trampoline the native layer calls
\* with refcon and the registration's iterator, which it has loaded with the
\* n objects of the event.  The iterator is wrapped, drained and forgotten.
service_matching_callback_internal(r, n) ==
    /\ halted = "no"
    /\ r \in DOMAIN regs
    /\ CanDeliver(regs[r])
    /\ nextHandle + n - 1 <= MaxHandles
    /\ LET reg == regs[r]
           objs == Fresh(nextHandle, n)
           drained == make_services(reg.iterator, iterq[reg.iterator] \o objs)
           valid == reg.refcon \in heap
       IN  /\ uaf' = (uaf \/ ~valid)
           /\ \E h \in (IF valid THEN {"no"} ELSE {"no", "crash"}) : halted' = h
           /\ calls' = drained.calls \o trampoline_cleanup(reg.iterator)
                          \o <<Call("callback", reg.refcon, 0)>>
           /\ releases' = [h \in Handles |->
                              releases[h] + ReleasedBy(calls', h)]
           /\ regs' = [regs EXCEPT ![r] =
                         UserCallback([reg EXCEPT !.supplied = Append(@, objs)],
                                      TRUE, drained.services)]
           /\ services' = services \cup Range(drained.services)
           /\ iterq' = [iterq EXCEPT ![reg.iterator] = <<>>]
           /\ nextHandle' = nextHandle + n
           /\ ret' = Ok("trampoline", <<r>>)
    /\ UNCHANGED <<dict, heap>>

\* The teardown without a Drop body run first: the port is destroyed with
\* the fields and the source removed afterwards.
notification_drop_port_first(reg, port) ==
    <<Call("IONotificationPortDestroy", port, 0),
      Call("CFRunLoopRemoveSource", port, 0),
      Call("CFRelease(run_loop)", 0, 0),
      Call("CFRelease(run_loop_source)", port, 0),
      Call("IOObjectRelease", reg.iterator, IOObjectRelease(reg.iterator)),
      Call("free(callback)", reg.callback, 0)>>

\* Drop for IOServiceMatchingNotification: the body of drop, then the fields
\* in the order the struct declares them: _notify_port, run_loop,
\* run_loop_source, _iterator, _callback.
notification_drop(reg, port) ==
    <<Call("CFRunLoopRemoveSource", port, 0),
      Call("IONotificationPortDestroy", port, 0),
      Call("CFRelease(run_loop)", 0, 0),
      Call("CFRelease(run_loop_source)", port, 0),
      Call("IOObjectRelease", reg.iterator, IOObjectRelease(reg.iterator)),
      Call("free(callback)", reg.callback, 0)>>

drop_notification(r) ==
    /\ halted = "no"
    /\ r \in DOMAIN regs
    /\ regs[r].status = "live"
    /\ LET reg == regs[r]
           cs == notification_drop(reg, r)
           rel == Positions(cs, "IOObjectRelease")
       IN  /\ calls' = cs
           /\ regs' = [regs EXCEPT ![r] =
                  [reg EXCEPT
                     !.status = "dropped",
                     !.sourceInLoop = Positions(cs, "CFRunLoopRemoveSource") = {},
                     !.portAlive = Positions(cs, "IONotificationPortDestroy") = {},
                     !.callback = 0]]
           /\ releases' = [releases EXCEPT ![reg.iterator] = @ + Cardinality(rel)]
           /\ heap' = heap \ {cs[i].obj : i \in Positions(cs, "free(callback)")}
           /\ halted' = IF \A i \in rel : cs[i].res = KERN_SUCCESS
                        THEN "no" ELSE "panic"
           /\ ret' = IF halted' = "no"
                     THEN Ok("drop_notification", <<r>>) ELSE NoReturn
    /\ UNCHANGED <<nextHandle, iterq, services, dict, uaf>>

\* ------------------------------------------------------- hid/device.rs
\* Whether the native HID calls of cs, issued in order on a device whose
\* CoreFoundation retain count is rc, reach the device after it was freed.
RECURSIVE TouchesFreed(_, _)
TouchesFreed(cs, rc) ==
    IF cs = <<>> THEN FALSE
    ELSE LET c == Head(cs)
         IN  IF c.call = "CFRelease(device)"
             THEN rc <= 0 \/ TouchesFreed(Tail(cs), rc - 1)
             ELSE IF c.call = "CFRetain(device)"
             THEN rc <= 0 \/ TouchesFreed(Tail(cs), rc + 1)
             ELSE IF c.call \in {"IOHIDDeviceOpen", "IOHIDDeviceClose",
                                 "IOHIDDeviceScheduleWithRunLoop",
                                 "IOHIDDeviceUnscheduleFromRunLoop"}
             THEN rc <= 0 \/ TouchesFreed(Tail(cs), rc)
             ELSE TouchesFreed(Tail(cs), rc)

\* The retain count of the device after the calls of cs.
RetainCountAfter(cs, rc) ==
    rc + Cardinality(Positions(cs, "CFRetain(device)"))
       - Cardinality(Positions(cs, "CFRelease(device)"))

\* IOHIDDevice::create: the service is passed by value and dropped when the
\* function returns.
hid_create(s, created) ==
    /\ halted = "no"
    /\ s \in services
    /\ Len(devs) < MaxDevices
    /\ LET result == IOObjectRelease(s)
       IN  /\ calls' = <<Call("IOHIDDeviceCreate", s, IF created THEN 1 ELSE 0),
                         Call("IOObjectRelease", s, result)>>
           /\ releases' = [releases EXCEPT ![s] = @ + 1]
           /\ services' = services \ {s}
           /\ halted' = IF result = KERN_SUCCESS THEN "no" ELSE "panic"
           /\ devs' = IF created
                      THEN Append(devs, [cfrc |-> 1, wrapper |-> TRUE,
                                         opens |-> <<>>, closes |-> <<>>,
                                         schedules |-> <<>>, unschedules |-> <<>>])
                      ELSE devs
           /\ ret' = IF halted' # "no" THEN NoReturn
                     ELSE IF created THEN Ok("create", <<Len(devs')>>)
                     ELSE [NoReturn EXCEPT !.op = "create"]
    /\ UNCHANGED <<nextHandle, iterq, dict, regs, heap, uaf,
                   openGuards, schedGuards, freedUse, objVars, nones>>

\* Drop for IOHIDDevice: CFRelease
drop_device(d) ==
    /\ halted = "no"
    /\ d \in DOMAIN devs
    /\ devs[d].wrapper
    /\ calls' = <<Call("CFRelease(device)", d, 0)>>
    /\ freedUse' = (freedUse \/ TouchesFreed(calls', devs[d].cfrc))
    /\ devs' = [devs EXCEPT ![d].wrapper = FALSE,
                            ![d].cfrc = RetainCountAfter(calls', @)]
    /\ ret' = Ok("drop_device", <<d>>)
    /\ UNCHANGED <<baseVars, halted, openGuards, schedGuards>>

\* A guard built whatever the native status.
open_guard_unchecked(d, options, result) ==
    <<[device |-> d, options |-> options, live |-> TRUE]>>

\* What open builds from the native status: the guard, holding a clone of the
\* device and the options, or nothing.
open_guard(d, options, result) ==
    IF result = kIOReturnSuccess
    THEN <<[device |-> d, options |-> options, live |-> TRUE]>>
    ELSE <<>>

\* What open returns for the native status.
open_result(result, g) ==
    IF result = kIOReturnSuccess THEN Ok("open", <<g>>) ELSE Err("open", result)

\* IOHIDDevice::open
open(d, options, result) ==
    /\ halted = "no"
    /\ d \in DOMAIN devs
    /\ devs[d].wrapper
    /\ result = kIOReturnSuccess => Len(openGuards) + Len(schedGuards) < MaxGuards
    /\ LET guard == open_guard(d, options, result)
           native == CallWith("IOHIDDeviceOpen", d, options, result)
       IN  /\ calls' = <<native>> \o
                       [i \in 1..Len(guard) |-> Call("CFRetain(device)", d, 0)]
           /\ openGuards' = openGuards \o guard
           /\ freedUse' = (freedUse \/ TouchesFreed(calls', devs[d].cfrc))
           /\ devs' = [devs EXCEPT
                  ![d].cfrc = RetainCountAfter(calls', @),
                  ![d].opens = IF result = kIOReturnSuccess
                               THEN Append(@, options) ELSE @]
           /\ ret' = open_result(result, Len(openGuards) + 1)
    /\ UNCHANGED <<baseVars, halted, schedGuards>>

\* The device reference released before the close.
open_guard_drop_release_first(guard) ==
    <<Call("CFRelease(device)", guard.device, 0),
      CallWith("IOHIDDeviceClose", guard.device, guard.options, 0)>>

\* Drop for IOHIDDeviceOpenGuard: the body of drop, then the field `device`.
open_guard_drop(guard) ==
    <<CallWith("IOHIDDeviceClose", guard.device, guard.options, 0),
      Call("CFRelease(device)", guard.device, 0)>>

drop_open_guard(g) ==
    /\ halted = "no"
    /\ g \in DOMAIN openGuards
    /\ openGuards[g].live
    /\ LET guard == openGuards[g]
           d == guard.device
           cs == open_guard_drop(guard)
       IN  /\ calls' = cs
           /\ openGuards' = [openGuards EXCEPT ![g].live = FALSE]
           /\ freedUse' = (freedUse \/ TouchesFreed(cs, devs[d].cfrc))
           /\ devs' = [devs EXCEPT
                  ![d].cfrc = RetainCountAfter(cs, @),
                  ![d].closes = @ \o ArgsOf(cs, "IOHIDDeviceClose")]
           /\ ret' = Ok("drop_open_guard", <<g>>)
    /\ UNCHANGED <<baseVars, halted, schedGuards>>

\* IOHIDDevice::schedule_with_run_loop: unconditional; the guard holds a
\* clone of the device, a clone of the run loop and the mode wrapped under
\* the get rule.
schedule_guard(d, run_loop, mode) ==
    [device |-> d, run_loop |-> run_loop, mode |-> mode, live |-> TRUE]

schedule_with_run_loop(d, run_loop, mode) ==
    /\ halted = "no"
    /\ d \in DOMAIN devs
    /\ devs[d].wrapper
    /\ Len(openGuards) + Len(schedGuards) < MaxGuards
    /\ calls' = <<CallWith("IOHIDDeviceScheduleWithRunLoop", d,
                           <<run_loop, mode>>, 0),
                  Call("CFRetain(device)", d, 0),
                  Call("CFRetain(run_loop)", run_loop, 0),
                  Call("CFRetain(mode)", mode, 0)>>
    /\ schedGuards' = Append(schedGuards, schedule_guard(d, run_loop, mode))
    /\ freedUse' = (freedUse \/ TouchesFreed(calls', devs[d].cfrc))
    /\ devs' = [devs EXCEPT
           ![d].cfrc = RetainCountAfter(calls', @),
           ![d].schedules = Append(@, <<run_loop, mode>>)]
    /\ ret' = Ok("schedule_with_run_loop", <<Len(schedGuards) + 1>>)
    /\ UNCHANGED <<baseVars, halted, openGuards>>

\* The unschedule made with the default mode instead of the stored one.
schedule_guard_drop_default_mode(guard) ==
    <<CallWith("IOHIDDeviceUnscheduleFromRunLoop", guard.device,
               <<guard.run_loop, 1>>, 0),
      Call("CFRelease(device)", guard.device, 0),
      Call("CFRelease(run_loop)", guard.run_loop, 0),
      Call("CFRelease(mode)", guard.mode, 0)>>

\* Drop for IOHIDDeviceScheduleGuard: the body of drop, then the fields
\* device, run_loop, mode.
schedule_guard_drop(guard) ==
    <<CallWith("IOHIDDeviceUnscheduleFromRunLoop", guard.device,
               <<guard.run_loop, guard.mode>>, 0),
      Call("CFRelease(device)", guard.device, 0),
      Call("CFRelease(run_loop)", guard.run_loop, 0),
      Call("CFRelease(mode)", guard.mode, 0)>>

drop_schedule_guard(g) ==
    /\ halted = "no"
    /\ g \in DOMAIN schedGuards
    /\ schedGuards[g].live
    /\ LET guard == schedGuards[g]
           cs == schedule_guard_drop(guard)
           unscheduled == SelectSeq(cs,
               LAMBDA c : c.call = "IOHIDDeviceUnscheduleFromRunLoop")
       IN  /\ calls' = cs
           /\ schedGuards' = [schedGuards EXCEPT ![g].live = FALSE]
           /\ freedUse' = (freedUse \/ TouchesFreed(cs, devs[guard.device].cfrc))
           /\ devs' = [d \in DOMAIN devs |->
                  [devs[d] EXCEPT
                     !.cfrc = IF d = guard.device
                              THEN RetainCountAfter(cs, @) ELSE @,
                     !.unschedules = @ \o ArgsOf(
                         SelectSeq(unscheduled, LAMBDA c : c.obj = d),
                         "IOHIDDeviceUnscheduleFromRunLoop")]]
           /\ ret' = Ok("drop_schedule_guard", <<g>>)
    /\ UNCHANGED <<baseVars, halted, openGuards>>

\* ------------------------------------- IOObject, IOIterator, TIOObject
\* The wrappers a caller can hold and call the TIOObject methods on.
Wrappers == services \cup objects \cup iters

\* The sum of a per-handle counter over a set of handles.
RECURSIVE Total(_, _)
Total(f, S) ==
    IF S = {} THEN 0
    ELSE LET h == CHOOSE x \in S : TRUE IN f[h] + Total(f, S \ {h})

\* The mock registry gains or loses objects.
registry_change(n) ==
    /\ halted = "no"
    /\ n # registry
    /\ registry' = n
    /\ calls' = <<>>
    /\ ret' = NoReturn
    /\ nones' = nones
    /\ UNCHANGED <<nextHandle, releases, iterq, services, dict, regs, heap, uaf,
                   retains, iters, objects, hidVars, halted>>

\* An IOIterator built around a native iterator the registry has positioned
\* at the start of its current contents.
iterator_new ==
    /\ halted = "no"
    /\ nextHandle + registry <= MaxHandles
    /\ LET it == nextHandle
       IN  /\ iters' = iters \cup {it}
           /\ iterq' = [iterq EXCEPT ![it] = Fresh(it + 1, registry)]
           /\ nextHandle' = it + registry + 1
           /\ calls' = <<>>
           /\ ret' = Ok("IOIterator", <<it>>)
    /\ nones' = nones
    /\ UNCHANGED <<releases, services, dict, regs, heap, uaf, retains, objects,
                   registry, hidVars, halted>>

\* Iterator::next for IOIterator: Some(IOObject(result)) when IOIteratorNext
\* answered a handle, None when it answered 0.
IOIterator_next(result) == IF result # 0 THEN <<result>> ELSE <<>>

iterator_next(h) ==
    /\ halted = "no"
    /\ h \in iters
    /\ LET result == IOIteratorNext(iterq[h])
           item == IOIterator_next(result)
       IN  /\ calls' = <<Call("IOIteratorNext", h, result)>>
           /\ iterq' = [iterq EXCEPT ![h] = IF @ = <<>> THEN @ ELSE Tail(@)]
           /\ objects' = objects \cup Range(item)
           /\ ret' = IF item # <<>>
                     THEN Ok("next", <<h>> \o item)
                     ELSE [NoReturn EXCEPT !.op = "next", !.vals = <<h>>]
    /\ nones' = NonesAfter(calls')
    /\ UNCHANGED <<nextHandle, releases, services, dict, regs, heap, uaf,
                   retains, iters, registry, hidVars, halted>>

\* A reset that asks nothing of the native iterator.
IOIterator_reset_nothing(h) == <<>>

\* IOIterator::reset
IOIterator_reset(h) == <<Call("IOIteratorReset", h, 0)>>

\* reset: IOIteratorReset puts the native iterator back at the start of what
\* the registry holds now.
iterator_reset(h) ==
    /\ halted = "no"
    /\ h \in iters
    /\ nextHandle + registry - 1 <= MaxHandles
    /\ LET cs == IOIterator_reset(h)
           rewound == Positions(cs, "IOIteratorReset") # {}
       IN  /\ calls' = cs
           /\ iterq' = IF rewound
                       THEN [iterq EXCEPT ![h] = Fresh(nextHandle, registry)]
                       ELSE iterq
           /\ nextHandle' = IF rewound THEN nextHandle + registry ELSE nextHandle
           /\ ret' = Ok("reset", <<h>>)
    /\ nones' = NonesAfter(calls')
    /\ UNCHANGED <<releases, services, dict, regs, heap, uaf, retains, iters,
                   objects, registry, hidVars, halted>>

\* Drop for IOObject, IOIterator and IOService: release().unwrap() panics on
\* any status but KERN_SUCCESS.
drop_outcome(result) == IF result = KERN_SUCCESS THEN "no" ELSE "panic"

\* Drop for IOIterator
drop_iterator(h) ==
    /\ halted = "no"
    /\ h \in iters
    /\ LET result == IOObjectRelease(h)
       IN  /\ releases' = [releases EXCEPT ![h] = @ + 1]
           /\ calls' = <<Call("IOObjectRelease", h, result)>>
           /\ halted' = drop_outcome(result)
           /\ iters' = iters \ {h}
           /\ ret' = IF halted' = "no"
                     THEN Ok("drop_iterator", <<h>>) ELSE NoReturn
    /\ nones' = nones
    /\ UNCHANGED <<nextHandle, iterq, services, dict, regs, heap, uaf, retains,
                   objects, registry, hidVars>>

\* Drop for IOObject
drop_object(o) ==
    /\ halted = "no"
    /\ o \in objects
    /\ LET result == IOObjectRelease(o)
       IN  /\ releases' = [releases EXCEPT ![o] = @ + 1]
           /\ calls' = <<Call("IOObjectRelease", o, result)>>
           /\ halted' = drop_outcome(result)
           /\ objects' = objects \ {o}
           /\ ret' = IF halted' = "no"
                     THEN Ok("drop_object", <<o>>) ELSE NoReturn
    /\ nones' = nones
    /\ UNCHANGED <<nextHandle, iterq, services, dict, regs, heap, uaf, retains,
                   iters, registry, hidVars>>

\* A result that reports Ok whatever the native status.
TIOObject_result_always_ok(op, w, result) == Ok(op, <<w>>)

\* What TIOObject::release and TIOObject::retain return for a native status.
TIOObject_result(op, w, result) ==
    IF result = KERN_SUCCESS THEN Ok(op, <<w>>) ELSE Err(op, result)

\* TIOObject::retain
retain(w, result) ==
    /\ halted = "no"
    /\ w \in Wrappers
    /\ result \in NativeAnswers(w)
    /\ Total(retains, Handles) < MaxRetains
    /\ calls' = <<Call("IOObjectRetain", w, result)>>
    /\ retains' = IF result = KERN_SUCCESS
                  THEN [retains EXCEPT ![w] = @ + 1] ELSE retains
    /\ ret' = TIOObject_result("retain", w, result)
    /\ nones' = nones
    /\ UNCHANGED <<nextHandle, releases, iterq, services, dict, regs, heap, uaf,
                   iters, objects, registry, hidVars, halted>>

\* TIOObject::release: takes &self, so the wrapper lives on and still
\* releases once more when it drops.
release(w, result) ==
    /\ halted = "no"
    /\ w \in Wrappers
    /\ result \in NativeAnswers(w)
    /\ Total(releases, Wrappers) <= MaxRetains
    /\ calls' = <<Call("IOObjectRelease", w, result)>>
    /\ releases' = [releases EXCEPT ![w] = @ + 1]
    /\ ret' = TIOObject_result("release", w, result)
    /\ nones' = nones
    /\ UNCHANGED <<nextHandle, iterq, services, dict, regs, heap, uaf, retains,
                   iters, objects, registry, hidVars, halted>>

\* The read-only methods of TIOObject that take no wrapper by value.
QueryOps ==
    {"get_class", "copy_class", "copy_superclass_for_class", "conforms_to",
     "get_kernel_retain_count", "get_user_retain_count", "get_retain_count"}

\* The native calls of a query on wrapper w; `answered` says whether the
\* native call gave a value (a non-null string, KERN_SUCCESS, true).  The
\* copy_ methods wrap a non-null result under the get rule, and
\* copy_superclass_for_class drops the CFString it was passed.
query_calls(w, q, answered) ==
    CASE q = "get_class" ->
            <<Call("IOObjectGetClass", w, IF answered THEN KERN_SUCCESS ELSE 5)>>
      [] q = "copy_class" ->
            <<Call("IOObjectCopyClass", w, IF answered THEN 1 ELSE 0)>>
            \o (IF answered THEN <<Call("CFRetain(result)", 0, 0)>> ELSE <<>>)
      [] q = "copy_superclass_for_class" ->
            <<Call("IOObjectCopySuperclassForClass", 0, IF answered THEN 1 ELSE 0)>>
            \o (IF answered THEN <<Call("CFRetain(result)", 0, 0)>> ELSE <<>>)
            \o <<Call("CFRelease(class_name)", 0, 0)>>
      [] q = "conforms_to" ->
            <<Call("IOObjectConformsTo", w, IF answered THEN 1 ELSE 0)>>
      [] q = "get_kernel_retain_count" ->
            <<Call("IOObjectGetKernelRetainCount", w, RefCount(w))>>
      [] q = "get_user_retain_count" ->
            <<Call("IOObjectGetUserRetainCount", w, RefCount(w))>>
      [] q = "get_retain_count" ->
            <<Call("IOObjectGetRetainCount", w, RefCount(w))>>

query(w, q, answered) ==
    /\ halted = "no"
    /\ w \in Wrappers
    /\ q \in {"get_kernel_retain_count", "get_user_retain_count",
              "get_retain_count"} => answered
    /\ calls' = query_calls(w, q, answered)
    /\ ret' = IF answered THEN Ok(q, <<w>>)
              ELSE [NoReturn EXCEPT !.op = q, !.vals = <<w>>]
    /\ nones' = nones
    /\ UNCHANGED <<nextHandle, releases, iterq, services, dict, regs, heap, uaf,
                   retains, iters, objects, registry, hidVars, halted>>

\* TIOObject::is_equal_to takes `object: IOObject` by value: the IOObject is
\* dropped, and so released, when the method returns.
is_equal_to_calls(w, o, equal) ==
    <<CallWith("IOObjectIsEqualTo", w, o, IF equal THEN 1 ELSE 0),
      Call("IOObjectRelease", o, IOObjectRelease(o))>>

is_equal_to(w, o, equal) ==
    /\ halted = "no"
    /\ w \in Wrappers
    /\ o \in objects
    /\ o # w
    /\ LET cs == is_equal_to_calls(w, o, equal)
       IN  /\ calls' = cs
           /\ releases' = [h \in Handles |-> releases[h] + ReleasedBy(cs, h)]
           /\ objects' = IF Positions(cs, "IOObjectRelease") # {}
                         THEN objects \ {o} ELSE objects
           /\ halted' = IF \A i \in Positions(cs, "IOObjectRelease") :
                               cs[i].res = KERN_SUCCESS
                        THEN "no" ELSE "panic"
           /\ ret' = IF halted' # "no" THEN NoReturn
                     ELSE IF equal THEN Ok("is_equal_to", <<w, o>>)
                     ELSE [NoReturn EXCEPT !.op = "is_equal_to",
                                           !.vals = <<w, o>>]
    /\ nones' = nones
    /\ UNCHANGED <<nextHandle, iterq, services, dict, regs, heap, uaf, retains,
                   iters, registry, hidVars>>

\* ------------------------------------------------------------ the system
Init ==
    /\ nextHandle = 1
    /\ releases = [h \in Handles |-> 0]
    /\ iterq = [h \in Handles |-> <<>>]
    /\ services = {}
    /\ dict = [held |-> 0, consumed |-> 0, released |-> 0]
    /\ regs = <<>>
    /\ heap = {}
    /\ uaf = FALSE
    /\ halted = "no"
    /\ calls = <<>>
    /\ ret = NoReturn
    /\ devs = <<>>
    /\ openGuards = <<>>
    /\ schedGuards = <<>>
    /\ freedUse = FALSE
    /\ retains = [h \in Handles |-> 0]
    /\ iters = {}
    /\ objects = {}
    /\ registry = 0
    /\ nones = [h \in Handles |-> 0]

GetMatchingService ==
    /\ \E held \in DictRefsOnEntry, found \in BOOLEAN :
          get_matching_service(held, found)
    /\ UNCHANGED <<hidVars, objVars>>
    /\ nones' = NonesAfter(calls')

GetMatchingServices ==
    /\ \E held \in DictRefsOnEntry, kr \in KernReturns, n \in 0..MaxMatch :
          get_matching_services(held, kr, n)
    /\ UNCHANGED <<hidVars, objVars>>
    /\ nones' = NonesAfter(calls')

AddMatchingNotification ==
    /\ \E held \in DictRefsOnEntry, portOk \in BOOLEAN, srcOk \in BOOLEAN,
          result \in KernReturns, n \in 0..MaxMatch :
          add_matching_notification(held, portOk, srcOk, result, n)
    /\ UNCHANGED <<hidVars, objVars>>
    /\ nones' = NonesAfter(calls')

Trampoline ==
    /\ \E r \in 1..MaxRegs, n \in 1..MaxMatch :
          service_matching_callback_internal(r, n)
    /\ UNCHANGED <<hidVars, objVars>>
    /\ nones' = NonesAfter(calls')

DropNotification ==
    /\ \E r \in 1..MaxRegs : drop_notification(r)
    /\ UNCHANGED <<hidVars, objVars>>
    /\ nones' = NonesAfter(calls')

DropService ==
    /\ \E s \in Handles : drop_service(s)
    /\ UNCHANGED <<hidVars, objVars>>
    /\ nones' = NonesAfter(calls')

HIDCreate == \E s \in Handles, created \in BOOLEAN : hid_create(s, created)

HIDOpen ==
    \E d \in 1..MaxDevices, options \in Options, result \in IOReturns :
        open(d, options, result)

DropOpenGuard == \E g \in 1..MaxGuards : drop_open_guard(g)

HIDSchedule ==
    \E d \in 1..MaxDevices, run_loop \in RunLoops, mode \in Modes :
        schedule_with_run_loop(d, run_loop, mode)

DropScheduleGuard == \E g \in 1..MaxGuards : drop_schedule_guard(g)

DropDevice == \E d \in 1..MaxDevices : drop_device(d)

RegistryChange == \E n \in 0..MaxMatch : registry_change(n)

IteratorNew == iterator_new

IteratorNext == \E h \in Handles : iterator_next(h)

IteratorReset == \E h \in Handles : iterator_reset(h)

DropIterator == \E h \in Handles : drop_iterator(h)

DropObject == \E o \in Handles : drop_object(o)

Retain == \E w \in Handles, result \in KernReturns : retain(w, result)

Release == \E w \in Handles, result \in KernReturns : release(w, result)

Query ==
    \E w \in Handles, q \in QueryOps, answered \in BOOLEAN :
        query(w, q, answered)

IsEqualTo ==
    \E w \in Handles, o \in Handles, equal \in BOOLEAN :
        is_equal_to(w, o, equal)

\* The whole program: every operation of the two files.
Next ==
    \/ RegistryChange
    \/ IteratorNew
    \/ IteratorNext
    \/ IteratorReset
    \/ DropIterator
    \/ DropObject
    \/ Retain
    \/ Release
    \/ Query
    \/ IsEqualTo
    \/ GetMatchingService
    \/ GetMatchingServices
    \/ AddMatchingNotification
    \/ Trampoline
    \/ DropNotification
    \/ DropService
    \/ HIDCreate
    \/ HIDOpen
    \/ DropOpenGuard
    \/ HIDSchedule
    \/ DropScheduleGuard
    \/ DropDevice

Spec == Init /\ [][Next]_vars

\* The synchronous queries of IOService and the handles they return.
NextQuery ==
    \/ GetMatchingService
    \/ GetMatchingServices
    \/ DropService

SpecQuery == Init /\ [][NextQuery]_vars

\* One caller registering for matching notifications, the native layer
\* delivering events, and the caller dropping what it was given.
NextNotify ==
    \/ AddMatchingNotification
    \/ Trampoline
    \/ DropNotification
    \/ DropService

SpecNotify == Init /\ [][NextNotify]_vars

\* A caller that enumerates one thing at a time: it builds an IOIterator, or
\* registers for notifications, only while it holds neither.
IterForCaller ==
    /\ Wrappers = {}
    /\ regs = <<>>
    /\ IteratorNew

RegisterForCaller ==
    /\ Wrappers = {}
    /\ AddMatchingNotification

\* Iterators over the registry and the iterator of a Registration: next,
\* reset, and the events the native layer delivers.
NextIter ==
    \/ RegistryChange
    \/ IterForCaller
    \/ IteratorNext
    \/ IteratorReset
    \/ RegisterForCaller
    \/ Trampoline

SpecIter == Init /\ [][NextIter]_vars

\* A caller that enumerates the registry once: the registry fills with at
\* most MaxObjects objects before the caller builds its only IOIterator.
RegistryFills ==
    /\ nextHandle = 1
    /\ RegistryChange
    /\ registry' <= MaxObjects

FirstIterator ==
    /\ nextHandle = 1
    /\ IteratorNew

\* The life of the handle wrappers: an IOIterator and the IOObjects it
\* yields, the TIOObject methods called on them, and their drops.
NextObject ==
    \/ RegistryFills
    \/ FirstIterator
    \/ IteratorNext
    \/ DropIterator
    \/ DropObject
    \/ Retain
    \/ Release
    \/ Query
    \/ IsEqualTo

SpecObject == Init /\ [][NextObject]_vars

\* The lookup of a caller that holds no service and no device yet.
LookupForDevice ==
    /\ services = {}
    /\ devs = <<>>
    /\ GetMatchingService

\* A caller looking a service up, creating the HID device for it and using
\* the device's open and schedule guards.
NextHID ==
    \/ LookupForDevice
    \/ HIDCreate
    \/ HIDOpen
    \/ DropOpenGuard
    \/ HIDSchedule
    \/ DropScheduleGuard
    \/ DropDevice

SpecHID == Init /\ [][NextHID]_vars

\* ------------------------------------------------------------ properties
\* A live wrapper (an IOService the caller holds, or the IOIterator of a
\* live Registration) owns native handle h.
Owned(h) ==
    \/ h \in services
    \/ \E r \in DOMAIN regs : regs[r].status = "live" /\ regs[r].iterator = h

MatchingOps ==
    {"get_matching_service", "get_matching_services", "add_matching_notification"}

\* C1: every native handle the mock has handed out is released at most once,
\* and exactly once as soon as no wrapper owns it any more and the process
\* is still running.
C1_ExactlyOneRelease ==
    \A h \in Handles :
        h < nextHandle =>
            /\ releases[h] <= 1
            /\ (halted = "no" /\ ~Owned(h)) => releases[h] = 1

\* C2: the drop of a Registration issues, each exactly once and in this
\* order: the removal of the run-loop source, the destruction of the port,
\* the release of the iterator, the freeing of the callback.
C2_TeardownOrder ==
    ret.op = "drop_notification" =>
        LET removed == Positions(calls, "CFRunLoopRemoveSource")
            destroyed == Positions(calls, "IONotificationPortDestroy")
            released == Positions(calls, "IOObjectRelease")
            freed == Positions(calls, "free(callback)")
        IN  /\ Cardinality(removed) = 1
            /\ Cardinality(destroyed) = 1
            /\ Cardinality(released) = 1
            /\ Cardinality(freed) = 1
            /\ \A a \in removed, b \in destroyed, c \in released, d \in freed :
                  a < b /\ b < c /\ c < d

\* C2 witness: a Registration that had an asynchronous delivery was dropped.
C2_Witness ==
    /\ ret.op = "drop_notification"
    /\ Len(regs[ret.vals[1]].deliveries) = 2
    /\ regs[ret.vals[1]].status = "dropped"

\* C3: a successful add_matching_notification has called the callback
\* exactly once when it returns, after the native registration, with the
\* initial match set (empty when nothing matches); the first delivery of
\* every Registration is that synchronous one and every later one is
\* asynchronous.
C3_InitialDeliverySync ==
    /\ (ret.op = "add_matching_notification" /\ ret.ok) =>
          LET reg == regs[ret.vals[1]]
              called == Positions(calls, "callback")
              native == Positions(calls, "IOServiceAddMatchingNotification")
          IN  /\ Cardinality(called) = 1
              /\ \A c \in called : c = Len(calls) /\ \A a \in native : a < c
              /\ reg.deliveries =
                    <<[async |-> FALSE, services |-> reg.supplied[1]]>>
    /\ \A r \in DOMAIN regs :
          regs[r].status \in {"live", "dropped"} =>
              /\ Len(regs[r].deliveries) >= 1
              /\ \A i \in DOMAIN regs[r].deliveries :
                    regs[r].deliveries[i].async = (i > 1)

\* C3 witness: a registration whose criteria matched nothing has returned.
C3_Witness ==
    /\ ret.op = "add_matching_notification"
    /\ ret.ok
    /\ regs[ret.vals[1]].supplied = << <<>> >>
    /\ regs[ret.vals[1]].deliveries = <<[async |-> FALSE, services |-> <<>>]>>

\* C4: the callback of a Registration has been called once per delivery, each
\* time with exactly the objects the mock loaded the iterator with for that
\* delivery, in the iterator's order, and the iterator is left exhausted.
C4_DeliveriesMatchIterator ==
    /\ \A r \in DOMAIN regs :
          /\ Len(regs[r].deliveries) = Len(regs[r].supplied)
          /\ \A i \in DOMAIN regs[r].deliveries :
                regs[r].deliveries[i].services = regs[r].supplied[i]
          /\ regs[r].iterator # 0 => iterq[regs[r].iterator] = <<>>
    /\ ret.op = "trampoline" => Cardinality(Positions(calls, "callback")) = 1

\* C4 witness: three objects at registration, then one event with two.
C4_Witness ==
    \E r \in DOMAIN regs :
        /\ Len(regs[r].deliveries) = 2
        /\ regs[r].deliveries[1] = [async |-> FALSE, services |-> <<2, 3, 4>>]
        /\ regs[r].deliveries[2] = [async |-> TRUE, services |-> <<5, 6>>]

\* C5: the trampoline has never dereferenced a cell that was not allocated,
\* and while the native subscription of a Registration can deliver, the
\* address it holds is the allocated cell the Registration owns.
C5_CallbackCellValid ==
    /\ ~uaf
    /\ \A r \in DOMAIN regs :
          CanDeliver(regs[r]) =>
              /\ regs[r].refcon \in heap
              /\ regs[r].refcon = regs[r].callback

\* C5 witness: the trampoline has just run on a live Registration.
C5_Witness ==
    /\ ret.op = "trampoline"
    /\ regs[ret.vals[1]].status = "live"
    /\ regs[ret.vals[1]].refcon \in heap

\* C6: after each matching operation has returned, the criteria dictionary
\* reference passed in has been given up exactly once: by the native call,
\* with no release by the wrapper.
C6_CriteriaGivenUpOnce ==
    (ret.op \in MatchingOps /\ halted = "no") =>
        /\ dict.consumed = 1
        /\ dict.released = 0

\* C7: when the native registration call answers a non-success status,
\* add_matching_notification returns Err with that status, no Registration
\* exists for the call, the callback was not called, and the wrapper has not
\* released the criteria dictionary.
C7_RegistrationFailure ==
    \A i \in Positions(calls, "IOServiceAddMatchingNotification") :
        calls[i].res # KERN_SUCCESS =>
            /\ ret = Err("add_matching_notification", calls[i].res)
            /\ regs[Len(regs)].status = "failed"
            /\ regs[Len(regs)].deliveries = <<>>
            /\ ~regs[Len(regs)].subscribed
            /\ Positions(calls, "callback") = {}
            /\ Positions(calls, "CFRelease(matching)") = {}
            /\ dict.consumed = 1
            /\ dict.released = 0

\* C7 witness: the native registration call has just failed.
C7_Witness ==
    /\ ret.op = "add_matching_notification"
    /\ ~ret.ok
    /\ ret.code = 4
    /\ \E i \in DOMAIN calls :
          calls[i].call = "IOServiceAddMatchingNotification" /\ calls[i].res = 4

OpenGuardsOf(d) == {g \in DOMAIN openGuards : openGuards[g].device = d}

\* C8: open returns a guard exactly when the native open answered success
\* and Err with the native status otherwise; there are exactly as many
\* guards on a device as successful native opens, and never more closes
\* than those.
C8_OpenSurfacesStatus ==
    /\ ret.op = "open" =>
          /\ calls[1].call = "IOHIDDeviceOpen"
          /\ ret.ok = (calls[1].res = kIOReturnSuccess)
          /\ ~ret.ok => ret.code = calls[1].res
          /\ ret.ok => /\ ret.vals = <<Len(openGuards)>>
                       /\ openGuards[Len(openGuards)] =
                             [device |-> calls[1].obj,
                              options |-> calls[1].arg, live |-> TRUE]
    /\ \A d \in DOMAIN devs :
          /\ Cardinality(OpenGuardsOf(d)) = Len(devs[d].opens)
          /\ Len(devs[d].closes) <= Len(devs[d].opens)

\* C8 witness: a second open on a device that is still open was rejected.
C8_Witness ==
    /\ ret.op = "open"
    /\ ~ret.ok
    /\ ret.code = -536870203
    /\ \E g \in OpenGuardsOf(calls[1].obj) : openGuards[g].live

\* C9: on every device and for every options value, the native closes issued
\* plus the live guards equal the successful opens; the drop of a guard
\* issues one close, with the guard's options, before it releases the
\* guard's device reference, and no native call reaches a freed device.
C9_OpenPairedWithClose ==
    /\ \A d \in DOMAIN devs : \A o \in Options :
          Count(devs[d].closes, o)
            + Cardinality({g \in OpenGuardsOf(d) :
                             openGuards[g].live /\ openGuards[g].options = o})
          = Count(devs[d].opens, o)
    /\ ret.op = "drop_open_guard" =>
          LET guard == openGuards[ret.vals[1]]
              closed == Positions(calls, "IOHIDDeviceClose")
              released == Positions(calls, "CFRelease(device)")
          IN  /\ Cardinality(closed) = 1
              /\ \A c \in closed :
                    /\ calls[c].obj = guard.device
                    /\ calls[c].arg = guard.options
                    /\ \A x \in released : c < x
    /\ ~freedUse

\* C9 witness: a guard was dropped after the IOHIDDevice it came from.
C9_Witness ==
    /\ ret.op = "drop_open_guard"
    /\ ~devs[openGuards[ret.vals[1]].device].wrapper
    /\ devs[openGuards[ret.vals[1]].device].closes = <<1>>
    /\ devs[openGuards[ret.vals[1]].device].opens = <<1>>

SchedGuardsOf(d) == {g \in DOMAIN schedGuards : schedGuards[g].device = d}

\* C10: on every device and for every run loop and mode, the native
\* unschedules issued plus the live guards equal the schedules made; the
\* drop of a guard issues one unschedule, on the guard's device with the run
\* loop and mode that were passed to schedule_with_run_loop.
C10_ScheduleRoundTrip ==
    /\ \A d \in DOMAIN devs : \A rl \in RunLoops, m \in Modes :
          Count(devs[d].unschedules, <<rl, m>>)
            + Cardinality({g \in SchedGuardsOf(d) :
                             /\ schedGuards[g].live
                             /\ schedGuards[g].run_loop = rl
                             /\ schedGuards[g].mode = m})
          = Count(devs[d].schedules, <<rl, m>>)
    /\ ret.op = "drop_schedule_guard" =>
          LET guard == schedGuards[ret.vals[1]]
              undone == Positions(calls, "IOHIDDeviceUnscheduleFromRunLoop")
          IN  /\ Cardinality(undone) = 1
              /\ \A u \in undone :
                    /\ calls[u].obj = guard.device
                    /\ calls[u].arg = <<guard.run_loop, guard.mode>>

\* C10 witness: a device was scheduled on run loop 2 in mode 2 and the guard
\* dropped.
C10_Witness ==
    /\ ret.op = "drop_schedule_guard"
    /\ devs[schedGuards[ret.vals[1]].device].schedules = << <<2, 2>> >>
    /\ devs[schedGuards[ret.vals[1]].device].unschedules = << <<2, 2>> >>

\* The IOIteratorNext calls of cs on handle h that answered an object although
\* h had answered 0 since its last reset: before the step (nones) or earlier
\* in cs.
NextAfterNone(cs, h) ==
    {i \in Positions(cs, "IOIteratorNext") :
        /\ cs[i].obj = h
        /\ cs[i].res # 0
        /\ \A j \in Positions(cs, "IOIteratorReset") : cs[j].obj = h => j > i
        /\ \/ nones[h] > 0
           \/ \E j \in Positions(cs, "IOIteratorNext") :
                 j < i /\ cs[j].obj = h /\ cs[j].res = 0}

\* After a reset of h the native iterator stands at the start of what the
\* registry holds now, and h counts as not exhausted.
ResetRestarts ==
    ret'.op = "reset" =>
        /\ Len(iterq'[ret'.vals[1]]) = registry'
        /\ nones'[ret'.vals[1]] = 0

\* C11 as stated: once next has returned None on an iterator, no later next
\* on that iterator returns an object until reset is called, and a reset
\* restarts the enumeration from the registry's current contents.
C11_NoneUntilReset ==
    [][/\ \A h \in Handles : NextAfterNone(calls', h) = {}
       /\ ResetRestarts]_vars

\* C11 amended: the same, except for the iterator of a Registration, which
\* the native layer loads again with the objects of each matching event: the
\* trampoline's next calls on it return objects with no reset in between.
C11_NoneUntilResetOrEvent ==
    [][/\ \A h \in Handles :
             NextAfterNone(calls', h) # {} =>
                 /\ ret'.op = "trampoline"
                 /\ regs'[ret'.vals[1]].iterator = h
       /\ ResetRestarts]_vars

\* C11 witness: an IOIterator over a non-empty registry has returned None
\* twice in a row.
C11_Witness ==
    /\ ret.op = "next"
    /\ ~ret.ok
    /\ ret.vals[1] \in iters
    /\ nones[ret.vals[1]] = 2
    /\ registry > 0

\* The IOObjectRelease and IOObjectRetain calls of the last operation that
\* the native layer refused.
Refused == {i \in Positions(calls, "IOObjectRelease")
                   \cup Positions(calls, "IOObjectRetain") :
               calls[i].res # KERN_SUCCESS}

\* C12: an explicit retain or release returns Err with the native status when
\* the native call did not succeed and Ok when it did, and does not abort; a
\* native release that fails in any other operation, which is the release of
\* a wrapper that is dropped, ends in a panic.
C12_ReleaseFailureSurfaces ==
    /\ Positions(calls, "IOObjectRetain") # {} => ret.op = "retain"
    /\ ret.op \in {"retain", "release"} =>
          /\ halted = "no"
          /\ Len(calls) = 1
          /\ calls[1].call = (IF ret.op = "retain" THEN "IOObjectRetain"
                              ELSE "IOObjectRelease")
          /\ ret.ok <=> calls[1].res = KERN_SUCCESS
          /\ ~ret.ok => ret.code = calls[1].res
    /\ (ret.op \notin {"retain", "release"} /\ Refused # {}) => halted = "panic"

\* C12 witness: an explicit retain on a wrapper whose reference was already
\* released returned Err with the native status.
C12_Witness ==
    /\ ret.op = "retain"
    /\ ~ret.ok
    /\ ret.code \in KernFailures
    /\ calls[1].obj \in Wrappers
    /\ releases[calls[1].obj] > 0

\* The native calls of the last add_matching_notification that failed: a null
\* port, a null run-loop source, a status other than KERN_SUCCESS.
FailedInRegistration ==
    {i \in Positions(calls, "IONotificationPortCreate")
             \cup Positions(calls, "IONotificationPortGetRunLoopSource") :
        calls[i].res = 0}
    \cup {i \in Positions(calls, "IOServiceAddMatchingNotification") :
             calls[i].res # KERN_SUCCESS}

\* C13: when a native call made by add_matching_notification fails, the
\* operation returns an error to its caller and the process does not abort.
C13_RegistrationNeverAborts ==
    FailedInRegistration # {} =>
        /\ halted = "no"
        /\ ret.op = "add_matching_notification"
        /\ ~ret.ok

\* The native calls behind the read-only methods of TIOObject.
QueryNatives ==
    {"IOObjectGetClass", "IOObjectCopyClass", "IOObjectCopySuperclassForClass",
     "IOObjectConformsTo", "IOObjectIsEqualTo", "IOObjectGetKernelRetainCount",
     "IOObjectGetUserRetainCount", "IOObjectGetRetainCount"}

\* C14: an operation that made one of the read-only native queries issued no
\* IOObjectRetain and no IOObjectRelease, on the receiver or on an argument.
C14_QueriesLeaveCounts ==
    (\E i \in DOMAIN calls : calls[i].call \in QueryNatives) =>
        \A i \in DOMAIN calls :
            calls[i].call \notin {"IOObjectRetain", "IOObjectRelease"}

\* The IOIteratorNext calls of the last operation, in the order they were made.
NextCalls == SelectSeq(calls, LAMBDA c : c.call = "IOIteratorNext")

C16_TrampolineBorrows ==
    /\ ret.op = "trampoline" =>
          \A i \in DOMAIN calls :
              /\ calls[i].call # "free(callback)"
              /\ calls[i].call = "IOObjectRelease" =>
                    calls[i].obj # regs[ret.vals[1]].iterator
    /\ \A r \in DOMAIN regs :
          /\ regs[r].status = "live" =>
                /\ releases[regs[r].iterator] = 0
                /\ regs[r].refcon \in heap
          /\ regs[r].status = "dropped" =>
                /\ releases[regs[r].iterator] = 1
                /\ regs[r].refcon \notin heap
    /\ ret.op = "drop_notification" =>
          /\ Cardinality(Positions(calls, "free(callback)")) = 1
          /\ Cardinality(Positions(calls, "IOObjectRelease")) = 1

\* C16 witness: a Registration that received two asynchronous deliveries has
\* just been dropped.
C16_Witness ==
    /\ ret.op = "drop_notification"
    /\ regs[ret.vals[1]].status = "dropped"
    /\ Cardinality({i \in DOMAIN regs[ret.vals[1]].deliveries :
                       regs[ret.vals[1]].deliveries[i].async}) >= 2

\* The services of the delivery the last operation made to registration r.
LastDelivered(r) == regs[r].deliveries[Len(regs[r].deliveries)].services

\* C17: after an operation that drained a registration's iterator with
\* make_services, the iterator is exhausted, the drain released nothing, and
\* each object the iterator yielded is owned by one wrapper, the IOService
\* delivered for it, with no release issued on it.
C17_DrainTransfersOwnership ==
    (/\ ret.op \in {"add_matching_notification", "trampoline"}
     /\ ret.ok) =>
        LET r == ret.vals[1]
            it == regs[r].iterator
            out == LastDelivered(r)
        IN  /\ NextCalls # <<>>
            /\ NextCalls[Len(NextCalls)].res = 0
            /\ iterq[it] = <<>>
            /\ Positions(calls, "IOObjectRelease") = {}
            /\ Len(NextCalls) = Len(out) + 1
            /\ \A i \in DOMAIN out :
                  /\ NextCalls[i].obj = it
                  /\ out[i] = NextCalls[i].res
                  /\ out[i] \in services
                  /\ out[i] \notin objects \cup iters
                  /\ releases[out[i]] = 0
                  /\ \A j \in DOMAIN out : out[i] = out[j] => i = j

\* C17 witness: the trampoline drained two objects out of the iterator.
C17_Witness ==
    /\ ret.op = "trampoline"
    /\ Len(LastDelivered(ret.vals[1])) = 2
    /\ halted = "no"

\* C18: no notification port has been destroyed while the run-loop source
\* obtained from it is still added to the run loop, and within an operation
\* IONotificationPortDestroy on a port whose source was added comes after the
\* CFRunLoopRemoveSource of that source.
C18_SourceRemovedBeforePortDestroyed ==
    /\ \A r \in DOMAIN regs : regs[r].sourceInLoop => regs[r].portAlive
    /\ \A i \in Positions(calls, "IONotificationPortDestroy") :
          (\E a \in Positions(calls, "CFRunLoopAddSource") :
               a < i /\ calls[a].obj = calls[i].obj)
          => \E j \in Positions(calls, "CFRunLoopRemoveSource") :
                 j < i /\ calls[j].obj = calls[i].obj

\* C19: a handle whose wrapper has been dropped has had exactly one native
\* release issued for its own reference plus one for each successful retain,
\* so its count is zero and never went below.
C19_ReleasesBalanceRetains ==
    \A h \in Handles :
        (h < nextHandle /\ h \notin Wrappers /\ releases[h] > 0) =>
            releases[h] = 1 + retains[h]

\* C20: once a matching operation that was passed the result of
\* io_service_matching has returned and no Registration made by it lives, the
\* references held on the dictionary are all given up: its count is zero.
C20_MatchingDictionaryBalanced ==
    (/\ dict.held = io_service_matching
     /\ halted = "no"
     /\ \A r \in DOMAIN regs : regs[r].status # "live") =>
        dict.held - dict.consumed - dict.released = 0

====
